---------------------------- MODULE Spec2Model ----------------------------
(***************************************************************************)
(* State-machine model of the FIFA player recommender:                     *)
(*   src/src/data_processing.py  DataProcessor  (clean, categorise,        *)
(*                                               normalise)                *)
(*   src/src/model.py            PlayerRecommender (fit and the queries)   *)
(*   src/app/main.py, src/run.py load_models and the API handlers          *)
(*   src/training/train.py       the training script                       *)
(*                                                                         *)
(* Conventions.                                                            *)
(*  - A Python str is a sequence of one-character strings, so that         *)
(*    lower(), ==, `in` and the regular-expression search of               *)
(*    Series.str.contains are computed on characters.                      *)
(*  - An optional argument is None (the empty tuple) or Some(v) = <<v>>.   *)
(*  - Row positions are 1-based here and 0-based in the source.            *)
(*  - A normalised feature value v in [0,1] is held as the integer         *)
(*    v * Scale; Scale is divisible by every possible column range, so     *)
(*    the division of normalize_features is exact.                         *)
(*  - A cosine similarity s (always >= 0 here) is held as the reduced      *)
(*    fraction of s^2, which orders and identifies scores exactly as s     *)
(*    does over the reals.                                                 *)
(***************************************************************************)
EXTENDS Integers, Sequences, FiniteSets, TLC

VARIABLES
    pc,                   \* where the program under study is ("new",
                          \* "fitted", "serving", ...)
    features,             \* raw feature matrix (extract_features)
    data,                 \* PlayerRecommender.data
    normalized_features,  \* PlayerRecommender.normalized_features
    feature_names,        \* PlayerRecommender.feature_names
    similarity_matrix,    \* PlayerRecommender.similarity_matrix
    call,                 \* the last query: its name and arguments
    outcome,              \* "none" | "returned" | "raised"
    result,               \* what the last query returned
    models_dir,           \* app: the two artifacts under models/
    male_model,           \* app/main.py global male_model
    female_model,         \* app/main.py global female_model
    index                 \* the index labels of PlayerRecommender.data

vars == <<pc, features, data, normalized_features, feature_names,
          similarity_matrix, call, outcome, result, models_dir, male_model,
          female_model, index>>

app_vars == <<models_dir, male_model, female_model>>

-----------------------------------------------------------------------------
(* Bounds of the model *)

MaxPlayers == 3

MaxCount == 3

MaxRows == 3

MaxFrame == 3

MaxPositionLen == 3

-----------------------------------------------------------------------------
(* Generic helpers *)

None == <<>>

Some(v) == <<v>>

Range(s) == {s[i] : i \in 1..Len(s)}

SetMin(S) == CHOOSE x \in S : \A y \in S : x <= y

SetMax(S) == CHOOSE x \in S : \A y \in S : x >= y

MinOf(a, b) == IF a <= b THEN a ELSE b

Abs(x) == IF x < 0 THEN -x ELSE x

RECURSIVE GCD(_, _)
GCD(a, b) == IF b = 0 THEN a ELSE GCD(b, a % b)

\* All sequences over S of length 1..n
SeqsUpTo(S, n) == UNION {[1..k -> S] : k \in 1..n}

\* The first n elements of s (s[:n], df.head(n)) for n >= 0
Head_(s, n) == SubSeq(s, 1, MinOf(n, Len(s)))

\* A dict with one more key
WithField(r, k, v) == [f \in DOMAIN r \cup {k} |-> IF f = k THEN v ELSE r[f]]

-----------------------------------------------------------------------------
(* Python strings *)

UpperChars == <<"A","B","C","D","E","F","G","H","I","J","K","L","M",
                "N","O","P","Q","R","S","T","U","V","W","X","Y","Z">>

LowerChars == <<"a","b","c","d","e","f","g","h","i","j","k","l","m",
                "n","o","p","q","r","s","t","u","v","w","x","y","z">>

\* The lower-case and upper-case forms of the letters
LowerMap ==
    [c \in Range(UpperChars) |->
        LowerChars[CHOOSE i \in 1..Len(UpperChars) : UpperChars[i] = c]]

UpperMap ==
    [c \in Range(LowerChars) |->
        UpperChars[CHOOSE i \in 1..Len(LowerChars) : LowerChars[i] = c]]

LowerChar(c) == IF c \in DOMAIN LowerMap THEN LowerMap[c] ELSE c

UpperChar(c) == IF c \in DOMAIN UpperMap THEN UpperMap[c] ELSE c

\* str.lower()
Lower(s) == [i \in 1..Len(s) |-> LowerChar(s[i])]

\* str.upper()
Upper(s) == [i \in 1..Len(s) |-> UpperChar(s[i])]

\* Python's `sub in s`: literal substring
Contains(s, sub) ==
    \E k \in 0..(Len(s) - Len(sub)) :
        \A j \in 1..Len(sub) : s[k + j] = sub[j]

\* The patterns of the model are built from letters, "." (any character) and
\* "(" (opens a group).  No pattern of the model holds ")", so a pattern with
\* a "(" is an unterminated group: re.compile raises re.error.
RegexValid(pat) == \A i \in 1..Len(pat) : pat[i] # "("

\* re.search(pat, s) for a valid pattern of letters and "."
RegexSearch(pat, s) ==
    \E k \in 0..(Len(s) - Len(pat)) :
        \A j \in 1..Len(pat) : pat[j] = "." \/ pat[j] = s[k + j]

\* Series.str.contains(pat, case=..., na=False) on one cell; regex=True is the
\* pandas default, and case=False adds re.IGNORECASE.
StrContains(s, pat, case) ==
    IF case THEN RegexSearch(pat, s) ELSE RegexSearch(Lower(pat), Lower(s))

-----------------------------------------------------------------------------
(* DataProcessor *)

\* The model keeps two of the 35 attribute columns.
FEATURE_COLUMNS == <<"PAC", "SHO">>

\* The raw values an attribute cell takes in the model
FeatureValues == 0..3

\* The least common multiple of the possible column ranges
Scale ==
    LET ranges == {r \in {a - b : a, b \in FeatureValues} : r > 0}
        common == {m \in 1..100 : \A r \in ranges : m % r = 0}
    IN  SetMin(common)

Unknown == <<"U","n","k","n","o","w","n">>

FreeAgent == <<"F","r","e","e"," ","A","g","e","n","t">>

\* A raw CSV row: its cells, `missing`, the columns whose cell is NaN, and
\* `text`, the attribute columns whose cell holds text that is no number (the
\* value held for such a column is a placeholder).
RawRow(name, ovr, pos, age, nation, league, team, pac, sho, missing) ==
    [Name |-> name, OVR |-> ovr, Position |-> pos, Age |-> age,
     Nation |-> nation, League |-> league, Team |-> team,
     PAC |-> pac, SHO |-> sho, missing |-> missing, text |-> {}]

\* The row with text in the cells of the columns cols
WithText(r, cols) == [r EXCEPT !.text = cols]

critical_cols == {"Name", "OVR", "Position"} \cup Range(FEATURE_COLUMNS)

\* Mutant of DropNa: text cells are already NaN (to_numeric before dropna)
DropNaCoerced(df) ==
    SelectSeq(df, LAMBDA r : (r.missing \cup r.text) \cap critical_cols = {})

\* df.dropna(subset=critical_cols)
DropNa(df) == SelectSeq(df, LAMBDA r : r.missing \cap critical_cols = {})

\* pd.to_numeric(df[col], errors='coerce').fillna(0) on one cell: text
\* becomes NaN and then 0
ToNumeric(r, col) == IF col \in r.text THEN 0 ELSE r[col]

\* The fillna defaults of the display columns and the numeric attribute
\* columns; the cleaned row has no NaN.
FillDefaults(r) ==
    [Name |-> r.Name, OVR |-> r.OVR, Position |-> r.Position,
     Age |-> IF "Age" \in r.missing THEN 0 ELSE r.Age,
     Nation |-> IF "Nation" \in r.missing THEN Unknown ELSE r.Nation,
     League |-> IF "League" \in r.missing THEN Unknown ELSE r.League,
     Team |-> IF "Team" \in r.missing THEN FreeAgent ELSE r.Team,
     PAC |-> ToNumeric(r, "PAC"), SHO |-> ToNumeric(r, "SHO")]

\* Mutant of DropDuplicates: keep='last'
DropDuplicatesKeepLast(df) ==
    LET last(i) == \A j \in (i + 1)..Len(df) : df[j].Name # df[i].Name
        F[i \in 0..Len(df)] ==
            IF i = 0 THEN <<>>
            ELSE IF last(i) THEN Append(F[i - 1], df[i]) ELSE F[i - 1]
    IN  F[Len(df)]

\* df.drop_duplicates(subset=['Name'], keep='first')
DropDuplicates(df) ==
    LET first(i) == \A j \in 1..(i - 1) : df[j].Name # df[i].Name
        F[i \in 0..Len(df)] ==
            IF i = 0 THEN <<>>
            ELSE IF first(i) THEN Append(F[i - 1], df[i]) ELSE F[i - 1]
    IN  F[Len(df)]

\* The index labels pd.read_csv gives a frame of n rows: RangeIndex(n)
RangeIndex(n) == [i \in 1..n |-> i - 1]

\* The labels of the rows df.dropna(subset=critical_cols) keeps: a kept row
\* keeps its label
DropNaIndex(df, labels) ==
    LET F[i \in 0..Len(df)] ==
            IF i = 0 THEN <<>>
            ELSE IF df[i].missing \cap critical_cols = {}
                 THEN Append(F[i - 1], labels[i]) ELSE F[i - 1]
    IN  F[Len(df)]

\* The labels of the rows drop_duplicates(subset=['Name'], keep='first')
\* keeps
DropDuplicatesIndex(df, labels) ==
    LET first(i) == \A j \in 1..(i - 1) : df[j].Name # df[i].Name
        F[i \in 0..Len(df)] ==
            IF i = 0 THEN <<>>
            ELSE IF first(i) THEN Append(F[i - 1], labels[i]) ELSE F[i - 1]
    IN  F[Len(df)]

\* Mutant of reset_index: the frame keeps the labels it had
reset_index_kept(labels) == labels

\* df.reset_index(drop=True)
reset_index(labels) == RangeIndex(Len(labels))

\* The index labels of the frame clean_data returns
clean_index(df) ==
    reset_index(DropDuplicatesIndex(DropNa(df),
                                    DropNaIndex(df, RangeIndex(Len(df)))))

\* clean_data, the rows of the frame it returns in their order; their labels
\* are clean_index.
clean_data(df) ==
    LET kept == DropNa(df)
        filled == [i \in 1..Len(kept) |-> FillDefaults(kept[i])]
    IN  DropDuplicates(filled)

DefenderCodes == {<<"C","B">>, <<"L","B">>, <<"R","B">>,
                  <<"L","W","B">>, <<"R","W","B">>}

MidfielderCodes == {<<"C","D","M">>, <<"C","M">>, <<"C","A","M">>,
                    <<"L","M">>, <<"R","M">>}

ForwardCodes == {<<"S","T">>, <<"C","F">>, <<"L","W">>, <<"R","W">>,
                 <<"L","F">>, <<"R","F">>}

\* The category names are only ever compared for equality and tested for
\* emptiness, so they are kept as atomic strings.
get_position_category(position) ==
    LET p == Upper(position)
    IN  IF p \in {<<"G","K">>} THEN "Goalkeeper"
        ELSE IF \E pos \in DefenderCodes : Contains(p, pos) THEN "Defender"
        ELSE IF \E pos \in MidfielderCodes : Contains(p, pos) THEN "Midfielder"
        ELSE IF \E pos \in ForwardCodes : Contains(p, pos) THEN "Forward"
        ELSE "Unknown"

\* df[self.FEATURE_COLUMNS].values
extract_features(df) ==
    [i \in 1..Len(df) |->
        [c \in 1..Len(FEATURE_COLUMNS) |-> df[i][FEATURE_COLUMNS[c]]]]

\* features.min(axis=0)[c], features.max(axis=0)[c]
ColumnMin(feats, c) == SetMin({feats[i][c] : i \in 1..Len(feats)})

ColumnMax(feats, c) == SetMax({feats[i][c] : i \in 1..Len(feats)})

\* Mutant of RangeVals: the column maximum is taken for the range
RangeValsIsMax(feats, c) ==
    LET r == ColumnMax(feats, c)
    IN  IF r = 0 THEN 1 ELSE r

\* range_vals, with range_vals[range_vals == 0] = 1
RangeVals(feats, c) ==
    LET r == ColumnMax(feats, c) - ColumnMin(feats, c)
    IN  IF r = 0 THEN 1 ELSE r

\* (features - min_vals) / range_vals, in units of 1/Scale
normalize_features(feats) ==
    [i \in 1..Len(feats) |->
        [c \in 1..Len(feats[i]) |->
            ((feats[i][c] - ColumnMin(feats, c)) * Scale)
                \div RangeVals(feats, c)]]

\* process_for_training after read_csv; an empty cleaned frame makes
\* features.min(axis=0) raise, so nothing is returned.
process_for_training(raw) ==
    LET df == clean_data(raw)
        withCat == [i \in 1..Len(df) |->
                      WithField(df[i], "Position_Category",
                                get_position_category(df[i].Position))]
        feats == extract_features(withCat)
    IN  [data |-> withCat,
         index |-> clean_index(raw),
         features |-> feats,
         normalized_features |-> normalize_features(feats),
         feature_names |-> FEATURE_COLUMNS]

-----------------------------------------------------------------------------
(* sklearn.metrics.pairwise.cosine_similarity, as fit uses it *)

Dot(u, v) ==
    LET F[k \in 0..Len(u)] == IF k = 0 THEN 0 ELSE F[k - 1] + u[k] * v[k]
    IN  F[Len(u)]

\* A non-negative rational, reduced
Frac(n, d) == LET g == GCD(n, d) IN [num |-> n \div g, den |-> d \div g]

Zero == [num |-> 0, den |-> 1]

One == [num |-> 1, den |-> 1]

\* a < b, a <= b on scores
ScoreLess(a, b) == a.num * b.den < b.num * a.den

ScoreLeq(a, b) == a.num * b.den <= b.num * a.den

\* Mutant of CosineOfRows: both factors are divided by the norm of the first row
CosineOfRowsOneNorm(u, v) ==
    IF Dot(u, u) = 0 \/ Dot(v, v) = 0 THEN Zero
    ELSE Frac(Dot(u, v) * Dot(u, v), Dot(u, u) * Dot(u, u))

\* The score of rows u and v: each row is divided by its norm (a zero row is
\* left as it is) and the dot product of the two taken.  Held squared.
CosineOfRows(u, v) ==
    IF Dot(u, u) = 0 \/ Dot(v, v) = 0 THEN Zero
    ELSE Frac(Dot(u, v) * Dot(u, v), Dot(u, u) * Dot(v, v))

cosine_similarity(X) ==
    [i \in 1..Len(X) |-> [j \in 1..Len(X) |-> CosineOfRows(X[i], X[j])]]

-----------------------------------------------------------------------------
(* The same computation in binary floating point *)

\* numpy computes in binary64: every operation returns the representable
\* number nearest to the exact result, ties to the even significand.  The
\* model keeps the arithmetic and shortens the significand from 53 bits to
\* MantissaBits.  A float is m * 2^e with m = 0 or
\* 2^(MantissaBits-1) <= m < 2^MantissaBits.
MantissaBits == 6

RECURSIVE Pow2(_)
Pow2(k) == IF k = 0 THEN 1 ELSE 2 * Pow2(k - 1)

FloatZero == [m |-> 0, e |-> 0]

\* The float nearest to (n / d) * 2^e, for n >= 0 and d > 0
RECURSIVE RoundRatio(_, _, _)
RoundRatio(n, d, e) ==
    IF n = 0 THEN FloatZero
    ELSE IF n >= d * Pow2(MantissaBits) THEN RoundRatio(n, 2 * d, e + 1)
    ELSE IF n < d * Pow2(MantissaBits - 1) THEN RoundRatio(2 * n, d, e - 1)
    ELSE LET q == n \div d
             r == n % d
             m == IF 2 * r > d \/ (2 * r = d /\ q % 2 = 1) THEN q + 1 ELSE q
         IN  IF m = Pow2(MantissaBits)
             THEN [m |-> Pow2(MantissaBits - 1), e |-> e + 1]
             ELSE [m |-> m, e |-> e]

FloatOne == RoundRatio(1, 1, 0)

FloatMul(a, b) == RoundRatio(a.m * b.m, 1, a.e + b.e)

FloatDiv(a, b) == RoundRatio(a.m, b.m, a.e - b.e)

FloatAdd(a, b) ==
    IF a.m = 0 THEN b
    ELSE IF b.m = 0 THEN a
    ELSE LET lo == MinOf(a.e, b.e)
         IN  RoundRatio(a.m * Pow2(a.e - lo) + b.m * Pow2(b.e - lo), 1, lo)

\* np.sqrt, correctly rounded: the significand is widened to twice the
\* precision over an even exponent, and its integer root rounded
FloatSqrt(a) ==
    IF a.m = 0 THEN FloatZero
    ELSE LET k == IF (a.e - MantissaBits) % 2 = 0
                  THEN MantissaBits ELSE MantissaBits - 1
             wide == a.m * Pow2(k)
             s == CHOOSE x \in 0..Pow2(MantissaBits) :
                      x * x <= wide /\ (x + 1) * (x + 1) > wide
             m == IF wide > s * s + s THEN s + 1 ELSE s
         IN  RoundRatio(m, 1, (a.e - k) \div 2)

\* a <= b on floats
FloatLeq(a, b) ==
    \/ a.m = 0
    \/ /\ b.m # 0
       /\ \/ a.e + MantissaBits <= b.e
          \/ /\ a.e - MantissaBits < b.e
             /\ LET lo == MinOf(a.e, b.e)
                IN  a.m * Pow2(a.e - lo) <= b.m * Pow2(b.e - lo)

\* normalize_features in floats: the subtraction of two small integers is
\* exact, the division rounds
FloatNormalizeFeatures(feats) ==
    [i \in 1..Len(feats) |->
        [c \in 1..Len(feats[i]) |->
            RoundRatio(feats[i][c] - ColumnMin(feats, c),
                       RangeVals(feats, c), 0)]]

FloatDot(u, v) ==
    LET F[k \in 0..Len(u)] ==
            IF k = 0 THEN FloatZero
            ELSE FloatAdd(F[k - 1], FloatMul(u[k], v[k]))
    IN  F[Len(u)]

\* sklearn normalize(X): each row divided by its Euclidean norm, a zero norm
\* replaced by 1
FloatUnitRow(u) ==
    LET norm == FloatSqrt(FloatDot(u, u))
        safe == IF norm.m = 0 THEN FloatOne ELSE norm
    IN  [k \in 1..Len(u) |-> FloatDiv(u[k], safe)]

\* cosine_similarity(X): the products of the normalised rows
FloatCosineSimilarity(X) ==
    LET U == [i \in 1..Len(X) |-> FloatUnitRow(X[i])]
    IN  [i \in 1..Len(X) |-> [j \in 1..Len(X) |-> FloatDot(U[i], U[j])]]

-----------------------------------------------------------------------------
(* PlayerRecommender *)

\* What a method call produced: a value, or an exception
Returned(v) == [raised |-> FALSE, value |-> v]

Raised == [raised |-> TRUE, value |-> None]

\* `if arg:` on an optional str argument: None and "" are both false
Truthy(arg) == arg # None /\ arg[1] # <<>>

\* self.data[self.data['Name'].str.lower() == player_name_lower]
ExactMatches(d, player_name) ==
    {i \in 1..Len(d) : Lower(d[i].Name) = Lower(player_name)}

\* self.data[self.data['Name'].str.lower().str.contains(player_name_lower)]
PartialMatches(d, player_name) ==
    {i \in 1..Len(d) : StrContains(Lower(d[i].Name), Lower(player_name), TRUE)}

\* _find_player_index: matches.index[0] is the first match in dataset order
find_player_index(d, player_name) ==
    IF ExactMatches(d, player_name) # {}
    THEN Returned(Some(SetMin(ExactMatches(d, player_name))))
    ELSE IF ~RegexValid(Lower(player_name)) THEN Raised
    ELSE IF PartialMatches(d, player_name) = {} THEN Returned(None)
    ELSE Returned(Some(SetMin(PartialMatches(d, player_name))))

\* Mutant of Eligible: the `if idx == player_idx: continue` is missing
EligibleKeepsSelf(d, player_idx, idx, same_position, max_age_diff) ==
    LET player_position == d[player_idx].Position_Category
        player_age == d[player_idx].Age
    IN  /\ ~(/\ same_position
             /\ player_position # ""
             /\ d[idx].Position_Category # player_position)
        /\ ~(/\ max_age_diff # None
             /\ Abs(d[idx].Age - player_age) > max_age_diff[1])

\* Mutant of Eligible: an age difference equal to max_age_diff is excluded too
EligibleAgeBelow(d, player_idx, idx, same_position, max_age_diff) ==
    LET player_position == d[player_idx].Position_Category
        player_age == d[player_idx].Age
    IN  /\ idx # player_idx
        /\ ~(/\ same_position
             /\ player_position # ""
             /\ d[idx].Position_Category # player_position)
        /\ ~(/\ max_age_diff # None
             /\ Abs(d[idx].Age - player_age) >= max_age_diff[1])

\* Mutant of Eligible: an 'Unknown' source is treated as having no category
EligibleUnknownUnfiltered(d, player_idx, idx, same_position, max_age_diff) ==
    LET player_position == d[player_idx].Position_Category
        player_age == d[player_idx].Age
    IN  /\ idx # player_idx
        /\ ~(/\ same_position
             /\ player_position # "Unknown"
             /\ d[idx].Position_Category # player_position)
        /\ ~(/\ max_age_diff # None
             /\ Abs(d[idx].Age - player_age) > max_age_diff[1])

\* The body of the candidate loop of recommend_similar: is row idx kept?
Eligible(d, player_idx, idx, same_position, max_age_diff) ==
    LET player_position == d[player_idx].Position_Category
        player_age == d[player_idx].Age
    IN  /\ idx # player_idx
        /\ ~(/\ same_position
             /\ player_position # ""
             /\ d[idx].Position_Category # player_position)
        /\ ~(/\ max_age_diff # None
             /\ Abs(d[idx].Age - player_age) > max_age_diff[1])

\* candidates, in the order of enumerate(similarity_scores)
Candidates(d, sim, player_idx, same_position, max_age_diff) ==
    LET F[k \in 0..Len(d)] ==
            IF k = 0 THEN <<>>
            ELSE IF Eligible(d, player_idx, k, same_position, max_age_diff)
                 THEN Append(F[k - 1], [idx |-> k, score |-> sim[player_idx][k]])
                 ELSE F[k - 1]
    IN  F[Len(d)]

\* Mutant of SortByScore: reverse=True is missing
SortByScoreAscending(cands) ==
    LET Insert(s, x) ==
            LET k == Cardinality({i \in 1..Len(s) : ScoreLeq(s[i].score, x.score)})
            IN  SubSeq(s, 1, k) \o <<x>> \o SubSeq(s, k + 1, Len(s))
        F[k \in 0..Len(cands)] ==
            IF k = 0 THEN <<>> ELSE Insert(F[k - 1], cands[k])
    IN  F[Len(cands)]

\* Mutant of SortByScore: sorted ascending and then reversed, which turns
\* the order of equal scores around
SortByScoreReversed(cands) ==
    LET asc == SortByScoreAscending(cands)
    IN  [k \in 1..Len(asc) |-> asc[Len(asc) - k + 1]]

\* candidates.sort(key=lambda x: x[1], reverse=True): list.sort is stable,
\* also under reverse=True, so equal scores keep their order.
SortByScore(cands) ==
    LET Insert(s, x) ==
            LET k == Cardinality({i \in 1..Len(s) : ScoreLeq(x.score, s[i].score)})
            IN  SubSeq(s, 1, k) \o <<x>> \o SubSeq(s, k + 1, Len(s))
        F[k \in 0..Len(cands)] ==
            IF k = 0 THEN <<>> ELSE Insert(F[k - 1], cands[k])
    IN  F[Len(cands)]

\* candidates[:n_recommendations], each as the row's dict with its score
TopRecommendations(d, sorted, n, key) ==
    LET top == Head_(sorted, n)
    IN  [k \in 1..Len(top) |-> WithField(d[top[k].idx], key, top[k].score)]

recommend_similar(d, sim, player_name, n, same_position, max_age_diff) ==
    LET found == find_player_index(d, player_name)
    IN  IF found.raised THEN Raised
        ELSE IF found.value = None THEN Returned(<<>>)
        ELSE Returned(TopRecommendations(d,
                 SortByScore(Candidates(d, sim, found.value[1], same_position,
                                        max_age_diff)),
                 n, "similarity_score"))

get_player_details(d, player_name) ==
    LET found == find_player_index(d, player_name)
    IN  IF found.raised THEN Raised
        ELSE IF found.value = None THEN Returned(None)
        ELSE Returned(Some(d[found.value[1]]))

\* target_vector[i] = target_attributes.get(feature, 50); a dict is a
\* function on its keys
TargetVector(names, target_attributes) ==
    [i \in 1..Len(names) |->
        IF names[i] \in DOMAIN target_attributes
        THEN target_attributes[names[i]] ELSE 50]

\* Mutant of NormalizeTarget: the minimum is not subtracted
NormalizeTargetUnshifted(t) == t

\* (target_vector - min) / (max - min + 1e-8).  The divisor is one positive
\* number for the whole vector and a cosine does not change when a vector is
\* multiplied by a positive number, so the vector is held undivided: it is
\* the zero vector exactly when all target values are equal.
NormalizeTarget(t) ==
    LET lo == SetMin(Range(t)) IN [i \in 1..Len(t) |-> t[i] - lo]

\* cosine_similarity(target_vector, self.normalized_features)[0]
TargetSimilarities(nf, t) == [k \in 1..Len(nf) |-> CosineOfRows(t, nf[k])]

\* Mutant of AttributeCandidates: the position filter is missing
AttributeCandidatesUnfiltered(d, similarities, position) ==
    [k \in 1..Len(d) |-> [idx |-> k, score |-> similarities[k]]]

\* candidates of recommend_by_attributes; `if position:` is false for None
\* and for ""
AttributeCandidates(d, similarities, position) ==
    LET F[k \in 0..Len(d)] ==
            IF k = 0 THEN <<>>
            ELSE IF /\ position # None /\ position[1] # ""
                    /\ d[k].Position_Category # position[1]
                 THEN F[k - 1]
                 ELSE Append(F[k - 1], [idx |-> k, score |-> similarities[k]])
    IN  F[Len(d)]

recommend_by_attributes(d, nf, names, target_attributes, n, position) ==
    LET target_vector == NormalizeTarget(TargetVector(names, target_attributes))
        similarities == TargetSimilarities(nf, target_vector)
    IN  Returned(TopRecommendations(d,
            SortByScore(AttributeCandidates(d, similarities, position)),
            n, "match_score"))

\* fit; self.data is the frame, rows and index labels
Fit(processed) ==
    /\ data' = processed.data
    /\ index' = processed.index
    /\ normalized_features' = processed.normalized_features
    /\ feature_names' = processed.feature_names
    /\ similarity_matrix' = cosine_similarity(processed.normalized_features)

\* One text filter of search_players on one row: absent or empty, or found
TextFilter(cell, arg, case) == ~Truthy(arg) \/ StrContains(cell, arg[1], case)

\* The conjunction of the filters of search_players on one row
Matches(r, query, position, min_overall, max_overall, nation, league, team) ==
    /\ ~Truthy(query) \/ StrContains(Lower(r.Name), Lower(query[1]), TRUE)
    /\ TextFilter(r.Position, position, FALSE)
    /\ min_overall = None \/ r.OVR >= min_overall[1]
    /\ max_overall = None \/ r.OVR <= max_overall[1]
    /\ TextFilter(r.Nation, nation, FALSE)
    /\ TextFilter(r.League, league, FALSE)
    /\ TextFilter(r.Team, team, FALSE)

\* Some supplied text filter is not a regular expression: str.contains raises
BadPattern(filters) == \E f \in filters : Truthy(f) /\ ~RegexValid(Lower(f[1]))

\* Mutant of SortValuesDesc: ascending=False is missing
SortValuesAsc(df) ==
    LET n == Len(df)
        perms == {p \in [1..n -> 1..n] : \A i, j \in 1..n : i # j => p[i] # p[j]}
    IN  {[k \in 1..n |-> df[p[k]]] : p \in
            {q \in perms : \A k \in 1..(n - 1) : df[q[k]].OVR <= df[q[k + 1]].OVR}}

\* df.sort_values('OVR', ascending=False): the default sort is not stable, so
\* rows of equal rating may come in any order.  The set of possible results.
SortValuesDesc(df) ==
    LET n == Len(df)
        perms == {p \in [1..n -> 1..n] : \A i, j \in 1..n : i # j => p[i] # p[j]}
    IN  {[k \in 1..n |-> df[p[k]]] : p \in
            {q \in perms : \A k \in 1..(n - 1) : df[q[k]].OVR >= df[q[k + 1]].OVR}}

\* Mutant of TopFilter: the position filter is missing
TopFilterNone(d, position) == d

\* The rows of get_top_players before the sort
TopFilter(d, position) ==
    IF position # None /\ position[1] # ""
    THEN SelectSeq(d, LAMBDA r : r.Position_Category = position[1])
    ELSE d

-----------------------------------------------------------------------------
(* The inputs of the model *)

\* Raw rows.  Names differ in case only ("Al", "al"), contain one another
\* ("Sal" holds "al"), repeat ("Al" twice); ratings, categories and ages tie
\* and differ; one row has no age and no team, one has no PAC and is dropped.
Roster ==
    { RawRow(<<"S","a","l">>, 90, <<"C","F">>, 30, <<"A","b">>, <<"L","a">>,
             <<"S","a">>, 3, 3, {}),
      RawRow(<<"A","l">>, 85, <<"S","T">>, 25, <<"A","b">>, <<"L","o">>,
             <<"S","a">>, 2, 3, {}),
      RawRow(<<"a","l">>, 85, <<"C","B">>, 24, <<"O","b">>, <<"L","a">>,
             <<"O","s">>, 1, 0, {}),
      RawRow(<<"L","o">>, 80, <<"S","S">>, 0, <<"O","b">>, <<"L","o">>,
             <<>>, 0, 2, {"Age", "Team"}),
      RawRow(<<"O","s">>, 80, <<"S","S">>, 26, <<"A","b">>, <<"L","a">>,
             <<"O","s">>, 0, 0, {}),
      RawRow(<<"A","l">>, 70, <<"C","B">>, 40, <<"O","b">>, <<"L","o">>,
             <<"O","s">>, 3, 1, {}),
      RawRow(<<"O","s">>, 75, <<"C","M">>, 21, <<"A","b">>, <<"L","a">>,
             <<"S","a">>, 0, 1, {"PAC"}) }

\* Names asked for: exact up to case, substrings, the empty name, a pattern
\* with "." and one with "("
NameQueries == { <<"A","L">>, <<"a">>, <<"l","o">>, <<>>, <<"a",".">>, <<"(">> }

AgeDiffs == {None, Some(0), Some(5)}

SearchQueries == {None, Some(<<"A","l">>), Some(<<"a",".">>), Some(<<"(">>)}

SearchPositions == {None, Some(<<"s","t">>)}

Overalls == {None, Some(85)}

SearchNations == {None, Some(<<"a","b">>)}

SearchLeagues == {None, Some(<<"l","a">>)}

\* The empty string is what an empty form field sends
SearchTeams == {Some(<<>>), Some(<<"f","r","e","e">>)}

TopPositions == {None, Some(""), Some("Forward"), Some("Unknown"),
                 Some("Goalkeeper")}

\* The rows of the frames clean_data is checked on.  Every row has its own
\* rating, which tells the rows of one name apart.  Names repeat and differ
\* in case; each critical column is missing in some row; one row has text in
\* an attribute cell, one has text and a missing cell.
CsvRow(name, ovr, pac, sho, missing, text) ==
    WithText(RawRow(name, ovr, <<"S","T">>, 20, <<"A","b">>, <<"L","a">>,
                    <<"S","a">>, pac, sho, missing), text)

CsvRows ==
    { CsvRow(<<"A">>, 90, 3, 1, {}, {}),
      CsvRow(<<"A">>, 80, 2, 2, {}, {}),
      CsvRow(<<"B">>, 85, 1, 3, {}, {}),
      CsvRow(<<"a">>, 50, 0, 0, {"Age", "Team"}, {}),
      CsvRow(<<"A">>, 70, 0, 2, {"PAC"}, {}),
      CsvRow(<<"A">>, 95, 2, 0, {"SHO"}, {}),
      CsvRow(<<>>, 60, 1, 1, {"Name"}, {}),
      CsvRow(<<"B">>, 0, 3, 3, {"OVR"}, {}),
      CsvRow(<<"B">>, 65, 2, 1, {"Position"}, {}),
      CsvRow(<<"B">>, 55, 3, 2, {}, {"SHO"}),
      CsvRow(<<"B">>, 45, 0, 3, {"OVR"}, {"PAC"}) }

\* The characters of the position strings get_position_category is checked
\* on: letters of the codes in both cases, and a separator
PositionChars == {"G", "K", "g", "k", "C", "B", "c", "M", "S", "T", "W", "L", " "}

\* Target dicts: empty, one attribute, both, a key that is no attribute, a
\* value equal to the default, equal values
TargetDicts ==
    { <<>>,
      [a \in {"PAC"} |-> 80],
      [a \in {"SHO"} |-> 20],
      [a \in {"PAC", "SHO"} |-> IF a = "PAC" THEN 80 ELSE 20],
      [a \in {"PAC", "XYZ"} |-> IF a = "PAC" THEN 60 ELSE 90],
      [a \in {"SHO"} |-> 50],
      [a \in {"PAC", "SHO"} |-> 70] }

AttributePositions == {None, Some(""), Some("Forward"), Some("Unknown"),
                       Some("Goalkeeper")}

-----------------------------------------------------------------------------
(* Actions *)

NoCall == [op |-> "none"]

\* An artifact under models/: no file, a file joblib cannot load, or the
\* dict PlayerRecommender.save wrote
MissingFile == [state |-> "missing", model |-> None]

CorruptFile == [state |-> "corrupt", model |-> None]

SavedFile(model) == [state |-> "saved", model |-> Some(model)]

\* The app is not part of the program under study
NoApp ==
    /\ models_dir = [male |-> MissingFile, female |-> MissingFile]
    /\ male_model = None
    /\ female_model = None

Init ==
    /\ pc = "new"
    /\ features = <<>>
    /\ data = <<>>
    /\ normalized_features = <<>>
    /\ feature_names = <<>>
    /\ similarity_matrix = <<>>
    /\ call = NoCall
    /\ outcome = "none"
    /\ result = None
    /\ NoApp
    /\ index = <<>>

\* training/train.py: process_for_training, then fit.  A frame that is empty
\* after cleaning makes normalize_features raise and no model is produced.
Train ==
    /\ pc = "new"
    /\ \E raw \in SeqsUpTo(Roster, MaxPlayers) :
          IF Len(clean_data(raw)) = 0
          THEN /\ pc' = "train_failed"
               /\ UNCHANGED <<features, data, normalized_features,
                              feature_names, similarity_matrix, index>>
          ELSE /\ pc' = "fitted"
               /\ features' = process_for_training(raw).features
               /\ Fit(process_for_training(raw))
    /\ UNCHANGED <<call, outcome, result>>
    /\ UNCHANGED app_vars

\* Mutant of Answer: the returned records, score field included, are written
\* back into the rows of the dataset they were made from
AnswerStoresScores(c, r) ==
    /\ call' = c
    /\ outcome' = IF r.raised THEN "raised" ELSE "returned"
    /\ result' = r.value
    /\ data' = [i \in 1..Len(data) |->
                  IF \E k \in 1..Len(r.value) : r.value[k].Name = data[i].Name
                  THEN r.value[CHOOSE k \in 1..Len(r.value) :
                                   r.value[k].Name = data[i].Name]
                  ELSE data[i]]
    /\ UNCHANGED <<pc, features, normalized_features, feature_names,
                   similarity_matrix>>
    /\ UNCHANGED app_vars
    /\ UNCHANGED index

\* The effect of a query: nothing of the recommender changes.  Requests are
\* served one at a time (app/main.py is synchronous): a query starts from the
\* idle state and Return ends it.
Answer(c, r) ==
    /\ call' = c
    /\ outcome' = IF r.raised THEN "raised" ELSE "returned"
    /\ result' = r.value
    /\ UNCHANGED <<pc, features, data, normalized_features, feature_names,
                   similarity_matrix>>
    /\ UNCHANGED app_vars
    /\ UNCHANGED index

RecommendSimilar ==
    /\ pc = "fitted"
    /\ call = NoCall
    /\ \E player_name \in NameQueries, n \in 0..MaxCount,
          same_position \in BOOLEAN, max_age_diff \in AgeDiffs :
          Answer([op |-> "recommend_similar", player_name |-> player_name,
                  n_recommendations |-> n, same_position |-> same_position,
                  max_age_diff |-> max_age_diff],
                 recommend_similar(data, similarity_matrix, player_name, n,
                                   same_position, max_age_diff))

GetPlayerDetails ==
    /\ pc = "fitted"
    /\ call = NoCall
    /\ \E player_name \in NameQueries :
          Answer([op |-> "get_player_details", player_name |-> player_name],
                 get_player_details(data, player_name))

SearchPlayers ==
    /\ pc = "fitted"
    /\ call = NoCall
    /\ \E query \in SearchQueries, position \in SearchPositions,
          min_overall \in Overalls, max_overall \in Overalls,
          nation \in SearchNations, league \in SearchLeagues,
          team \in SearchTeams, limit \in 0..MaxCount :
          LET c == [op |-> "search_players", query |-> query,
                    position |-> position, min_overall |-> min_overall,
                    max_overall |-> max_overall, nation |-> nation,
                    league |-> league, team |-> team, limit |-> limit]
              df == SelectSeq(data, LAMBDA r :
                        Matches(r, query, position, min_overall, max_overall,
                                nation, league, team))
          IN  IF BadPattern({query, position, nation, league, team})
              THEN Answer(c, Raised)
              ELSE \E sorted \in SortValuesDesc(df) :
                      Answer(c, Returned(Head_(sorted, limit)))

GetTopPlayers ==
    /\ pc = "fitted"
    /\ call = NoCall
    /\ \E n \in 0..MaxCount, position \in TopPositions :
          \E sorted \in SortValuesDesc(TopFilter(data, position)) :
              Answer([op |-> "get_top_players", n |-> n, position |-> position],
                     Returned(Head_(sorted, n)))

RecommendByAttributes ==
    /\ pc = "fitted"
    /\ call = NoCall
    /\ \E target_attributes \in TargetDicts, n \in 0..MaxCount,
          position \in AttributePositions :
          Answer([op |-> "recommend_by_attributes",
                  target_attributes |-> target_attributes,
                  n_recommendations |-> n, position |-> position],
                 recommend_by_attributes(data, normalized_features,
                                         feature_names, target_attributes, n,
                                         position))

\* The request is over
Return ==
    /\ call # NoCall
    /\ call' = NoCall
    /\ outcome' = "none"
    /\ result' = None
    /\ UNCHANGED <<pc, features, data, normalized_features, feature_names,
                   similarity_matrix>>
    /\ UNCHANGED app_vars
    /\ UNCHANGED index

Next ==
    \/ Train
    \/ RecommendSimilar
    \/ RecommendByAttributes
    \/ GetPlayerDetails
    \/ SearchPlayers
    \/ GetTopPlayers
    \/ Return

Spec == Init /\ [][Next]_vars

\* Training and the two queries by name
NextRecommend ==
    \/ Train
    \/ RecommendSimilar
    \/ GetPlayerDetails
    \/ Return

SpecRecommend == Init /\ [][NextRecommend]_vars

\* Training and the two listings
NextSearch ==
    \/ Train
    \/ SearchPlayers
    \/ GetTopPlayers
    \/ Return

SpecSearch == Init /\ [][NextSearch]_vars

\* Training and the recommendation by attributes
NextAttributes ==
    \/ Train
    \/ RecommendByAttributes
    \/ Return

SpecAttributes == Init /\ [][NextAttributes]_vars

\* The recommendation just answered is asked for a second time, with the
\* same arguments, on the recommender as the first call left it; the first
\* answer is kept beside the arguments.
CallAgain ==
    /\ pc = "fitted"
    /\ call.op \in {"recommend_similar", "recommend_by_attributes"}
    /\ outcome = "returned"
    /\ "first" \notin DOMAIN call
    /\ Answer(WithField(call, "first", result),
              IF call.op = "recommend_similar"
              THEN recommend_similar(data, similarity_matrix, call.player_name,
                                     call.n_recommendations,
                                     call.same_position, call.max_age_diff)
              ELSE recommend_by_attributes(data, normalized_features,
                                           feature_names,
                                           call.target_attributes,
                                           call.n_recommendations,
                                           call.position))

\* Training, the two recommendations and their repetition
NextRepeat ==
    \/ Train
    \/ RecommendSimilar
    \/ RecommendByAttributes
    \/ CallAgain
    \/ Return

SpecRepeat == Init /\ [][NextRepeat]_vars

\* normalize_features alone, on every small feature matrix
InitNormalize ==
    /\ pc = "raw"
    /\ features \in SeqsUpTo([1..Len(FEATURE_COLUMNS) -> FeatureValues], MaxRows)
    /\ data = <<>>
    /\ normalized_features = <<>>
    /\ feature_names = <<>>
    /\ similarity_matrix = <<>>
    /\ call = NoCall
    /\ outcome = "none"
    /\ result = None
    /\ NoApp
    /\ index = <<>>

NormalizeFeatures ==
    /\ pc = "raw"
    /\ pc' = "normalized"
    /\ normalized_features' = normalize_features(features)
    /\ UNCHANGED <<features, data, feature_names, similarity_matrix, call,
                   outcome, result>>
    /\ UNCHANGED app_vars
    /\ UNCHANGED index

NextNormalize == NormalizeFeatures

SpecNormalize == InitNormalize /\ [][NextNormalize]_vars

\* clean_data alone, on every small frame
InitClean ==
    /\ pc = "new"
    /\ features = <<>>
    /\ data = <<>>
    /\ normalized_features = <<>>
    /\ feature_names = <<>>
    /\ similarity_matrix = <<>>
    /\ call \in {[op |-> "clean_data", df |-> df] : df \in SeqsUpTo(CsvRows, MaxFrame)}
    /\ outcome = "none"
    /\ result = None
    /\ NoApp
    /\ index = <<>>

CleanData ==
    /\ call.op = "clean_data"
    /\ outcome = "none"
    /\ outcome' = "returned"
    /\ result' = clean_data(call.df)
    /\ UNCHANGED <<pc, features, data, normalized_features, feature_names,
                   similarity_matrix, call>>
    /\ UNCHANGED app_vars
    /\ UNCHANGED index

NextClean == CleanData

SpecClean == InitClean /\ [][NextClean]_vars

\* get_position_category alone, on every short position string
InitCategory ==
    /\ pc = "new"
    /\ features = <<>>
    /\ data = <<>>
    /\ normalized_features = <<>>
    /\ feature_names = <<>>
    /\ similarity_matrix = <<>>
    /\ call \in {[op |-> "get_position_category", position |-> p] :
                    p \in SeqsUpTo(PositionChars, MaxPositionLen)}
    /\ outcome = "none"
    /\ result = None
    /\ NoApp
    /\ index = <<>>

GetPositionCategory ==
    /\ call.op = "get_position_category"
    /\ outcome = "none"
    /\ outcome' = "returned"
    /\ result' = get_position_category(call.position)
    /\ UNCHANGED <<pc, features, data, normalized_features, feature_names,
                   similarity_matrix, call>>
    /\ UNCHANGED app_vars
    /\ UNCHANGED index

NextCategory == GetPositionCategory

SpecCategory == InitCategory /\ [][NextCategory]_vars

\* normalize_features and fit in floating point, on every small feature
\* matrix; row k is the attribute vector of player k
InitFloat ==
    /\ pc = "float_raw"
    /\ features \in SeqsUpTo([1..Len(FEATURE_COLUMNS) -> FeatureValues], MaxRows)
    /\ data = <<>>
    /\ normalized_features = <<>>
    /\ feature_names = <<>>
    /\ similarity_matrix = <<>>
    /\ call = NoCall
    /\ outcome = "none"
    /\ result = None
    /\ NoApp
    /\ index = <<>>

FitFloat ==
    /\ pc = "float_raw"
    /\ pc' = "float_fitted"
    /\ normalized_features' = FloatNormalizeFeatures(features)
    /\ feature_names' = FEATURE_COLUMNS
    /\ similarity_matrix' =
          FloatCosineSimilarity(FloatNormalizeFeatures(features))
    /\ UNCHANGED <<features, data, call, outcome, result>>
    /\ UNCHANGED app_vars
    /\ UNCHANGED index

NextFloat == FitFloat

SpecFloat == InitFloat /\ [][NextFloat]_vars

-----------------------------------------------------------------------------
(* app/main.py and run.py *)

\* train_model: the recommender fitted on a frame, as save writes it and
\* load reads it back
Trained(raw) ==
    LET processed == process_for_training(raw)
    IN  [data |-> processed.data,
         normalized_features |-> processed.normalized_features,
         feature_names |-> processed.feature_names,
         similarity_matrix |-> cosine_similarity(processed.normalized_features)]

\* The roster row of this name and rating
Player(name, ovr) == CHOOSE r \in Roster : r.Name = name /\ r.OVR = ovr

\* The frames the saved models of the app were trained on
AppFrames ==
    { <<Player(<<"S","a","l">>, 90), Player(<<"A","l">>, 85),
        Player(<<"a","l">>, 85)>>,
      <<Player(<<"L","o">>, 80), Player(<<"O","s">>, 80)>>,
      <<Player(<<"A","l">>, 70), Player(<<"S","a","l">>, 90)>> }

Artifacts == {MissingFile, CorruptFile} \cup {SavedFile(Trained(raw)) : raw \in AppFrames}

Genders == {"male", "female"}

\* The name lists sent to /api/compare: too short, found, one not found, one
\* that is no regular expression, too long
CompareLists ==
    { <<>>,
      << <<"S","a","l">> >>,
      << <<"S","a","l">>, <<"A","l">> >>,
      << <<"l","o">>, <<"o","s">> >>,
      << <<"S","a","l">>, <<"z">> >>,
      << <<"(">>, <<"S","a","l">> >>,
      << <<"a">>, <<"a">>, <<"a">>, <<"a">>, <<"a">> >> }

ApiQueries == {<<>>, <<"a","l">>, <<"(">>}

ApiPositions == {None, Some("Forward")}

\* PlayerRecommender.load inside the try of load_models: a missing or
\* unreadable file raises and the global is set to None
LoadOrNone(file) == IF file.state = "saved" THEN file.model ELSE None

\* jsonify({'error': ...}), status
ErrorResponse(status) == [status |-> status, success |-> FALSE, payload |-> None]

\* jsonify({'success': True, ...}); the status is Flask's default
SuccessResponse(payload) == [status |-> 200, success |-> TRUE, payload |-> payload]

\* The fields the handlers copy out of a player dict (the display-only fields
\* and the rounded percentage of the score are left out)
Card(player) ==
    [name |-> player.Name, overall |-> player.OVR,
     position |-> player.Position, age |-> player.Age,
     nation |-> player.Nation, league |-> player.League,
     team |-> player.Team, pace |-> player.PAC, shooting |-> player.SHO]

\* model = male_model if gender == 'male' else female_model
SelectModel(gender) == IF gender = "male" THEN male_model ELSE female_model

\* /api/recommend
api_recommend(model, player_name, n, same_position, max_age_diff) ==
    IF player_name = <<>> THEN ErrorResponse(400)
    ELSE IF model = None THEN ErrorResponse(500)
    ELSE LET m == model[1]
             recommendations ==
                 recommend_similar(m.data, m.similarity_matrix, player_name,
                                   n, same_position, max_age_diff)
             source_player == get_player_details(m.data, player_name)
         IN  IF recommendations.raised THEN ErrorResponse(500)
             ELSE IF recommendations.value = <<>> THEN ErrorResponse(404)
             ELSE IF source_player.raised \/ source_player.value = None
                  THEN ErrorResponse(500)
             ELSE SuccessResponse(
                      [source_player |-> Card(source_player.value[1]),
                       recommendations |->
                           [k \in 1..Len(recommendations.value) |->
                               Card(recommendations.value[k])]])

\* /api/search with a name query only; the limit is the default 50.  The set
\* of responses the unstable sort allows.
api_search(model, query) ==
    IF model = None THEN {ErrorResponse(500)}
    ELSE IF BadPattern({Some(query)}) THEN {ErrorResponse(500)}
    ELSE {SuccessResponse([k \in 1..Len(Head_(sorted, 50)) |-> Card(sorted[k])]) :
            sorted \in SortValuesDesc(SelectSeq(model[1].data, LAMBDA r :
                Matches(r, Some(query), None, None, None, None, None, None)))}

\* /api/player/<player_name>
api_player(model, player_name) ==
    IF model = None THEN ErrorResponse(500)
    ELSE LET player == get_player_details(model[1].data, player_name)
         IN  IF player.raised THEN ErrorResponse(500)
             ELSE IF player.value = None THEN ErrorResponse(404)
             ELSE SuccessResponse(Card(player.value[1]))

\* /api/compare: the first name that raises or is not found ends the loop
api_compare(model, player_names) ==
    IF Len(player_names) < 2 THEN ErrorResponse(400)
    ELSE IF Len(player_names) > 4 THEN ErrorResponse(400)
    ELSE IF model = None THEN ErrorResponse(500)
    ELSE LET players == [k \in 1..Len(player_names) |->
                            get_player_details(model[1].data, player_names[k])]
             bad == {k \in 1..Len(players) :
                        players[k].raised \/ players[k].value = None}
         IN  IF bad = {}
             THEN SuccessResponse([k \in 1..Len(players) |->
                                      Card(players[k].value[1])])
             ELSE IF players[SetMin(bad)].raised THEN ErrorResponse(500)
             ELSE ErrorResponse(404)

\* /api/top-players.  The set of responses the unstable sort allows.
api_top_players(model, n, position) ==
    IF model = None THEN {ErrorResponse(500)}
    ELSE {SuccessResponse([k \in 1..Len(Head_(sorted, n)) |-> Card(sorted[k])]) :
            sorted \in SortValuesDesc(TopFilter(model[1].data, position))}

\* One half of /api/stats: `... if male_model else 0`, `... else 'N/A'`
ModelStats(model) ==
    IF model = None
    THEN [total_players |-> 0, top_rated |-> None]
    ELSE LET d == model[1].data
             best == SetMin({i \in 1..Len(d) :
                                \A j \in 1..Len(d) : d[j].OVR <= d[i].OVR})
         IN  [total_players |-> Len(d), top_rated |-> Some(d[best].Name)]

\* /api/stats
api_stats ==
    SuccessResponse([male |-> ModelStats(male_model),
                     female |-> ModelStats(female_model)])

\* The app before it is started: two artifacts, no model loaded
InitApp ==
    /\ pc = "startup"
    /\ features = <<>>
    /\ data = <<>>
    /\ normalized_features = <<>>
    /\ feature_names = <<>>
    /\ similarity_matrix = <<>>
    /\ call = NoCall
    /\ outcome = "none"
    /\ result = None
    /\ models_dir \in [{"male", "female"} -> Artifacts]
    /\ male_model = None
    /\ female_model = None
    /\ index = <<>>

\* load_models: the two loads are tried one after the other, each in its own
\* try
load_models ==
    /\ male_model' = LoadOrNone(models_dir.male)
    /\ female_model' = LoadOrNone(models_dir.female)

\* python app/main.py: load_models, then app.run
MainPy ==
    /\ pc = "startup"
    /\ load_models
    /\ pc' = "serving"
    /\ UNCHANGED <<features, data, normalized_features, feature_names,
                   similarity_matrix, call, outcome, result, models_dir,
                   index>>

\* python run.py: sys.exit(1) unless both files exist, then load_models and
\* app.run
RunPy ==
    /\ pc = "startup"
    /\ IF MissingFile \in {models_dir.male, models_dir.female}
       THEN /\ pc' = "exited"
            /\ UNCHANGED <<male_model, female_model>>
       ELSE /\ load_models
            /\ pc' = "serving"
    /\ UNCHANGED <<features, data, normalized_features, feature_names,
                   similarity_matrix, call, outcome, result, models_dir,
                   index>>

\* A handler answers a request; no handler assigns to a global
Respond(request, response) ==
    /\ call' = request
    /\ outcome' = "returned"
    /\ result' = response
    /\ UNCHANGED <<pc, features, data, normalized_features, feature_names,
                   similarity_matrix>>
    /\ UNCHANGED app_vars
    /\ UNCHANGED index

ApiRecommend ==
    /\ pc = "serving"
    /\ call = NoCall
    /\ \E gender \in Genders, player_name \in NameQueries, n \in 0..MaxCount,
          same_position \in BOOLEAN, max_age_diff \in AgeDiffs :
          Respond([op |-> "/api/recommend", gender |-> gender,
                   player_name |-> player_name, n_recommendations |-> n,
                   same_position |-> same_position,
                   max_age_diff |-> max_age_diff],
                  api_recommend(SelectModel(gender), player_name, n,
                                same_position, max_age_diff))

ApiSearch ==
    /\ pc = "serving"
    /\ call = NoCall
    /\ \E gender \in Genders, query \in ApiQueries :
          \E response \in api_search(SelectModel(gender), query) :
              Respond([op |-> "/api/search", gender |-> gender,
                       query |-> query], response)

ApiPlayer ==
    /\ pc = "serving"
    /\ call = NoCall
    /\ \E gender \in Genders, player_name \in NameQueries \ {<<>>} :
          Respond([op |-> "/api/player", gender |-> gender,
                   player_name |-> player_name],
                  api_player(SelectModel(gender), player_name))

ApiCompare ==
    /\ pc = "serving"
    /\ call = NoCall
    /\ \E gender \in Genders, player_names \in CompareLists :
          Respond([op |-> "/api/compare", gender |-> gender,
                   players |-> player_names],
                  api_compare(SelectModel(gender), player_names))

ApiTopPlayers ==
    /\ pc = "serving"
    /\ call = NoCall
    /\ \E gender \in Genders, n \in 0..MaxCount, position \in ApiPositions :
          \E response \in api_top_players(SelectModel(gender), n, position) :
              Respond([op |-> "/api/top-players", gender |-> gender,
                       n |-> n, position |-> position], response)

ApiStats ==
    /\ pc = "serving"
    /\ call = NoCall
    /\ Respond([op |-> "/api/stats"], api_stats)

NextApp ==
    \/ MainPy
    \/ RunPy
    \/ ApiRecommend
    \/ ApiSearch
    \/ ApiPlayer
    \/ ApiCompare
    \/ ApiTopPlayers
    \/ ApiStats
    \/ Return

SpecApp == InitApp /\ [][NextApp]_vars

-----------------------------------------------------------------------------
(* training/train.py *)

\* A CSV under new-data/: None when the file is absent, else its frame.  One
\* frame has no row left after cleaning.
CsvFiles ==
    {None} \cup {Some(raw) : raw \in AppFrames}
           \cup {Some(<<Player(<<"O","s">>, 75)>>)}

\* The flags of one run
Flags == [male : BOOLEAN, female : BOOLEAN, skip_male : BOOLEAN,
          skip_female : BOOLEAN]

\* train_model: (success, model).  An absent file returns False; an exception
\* anywhere (here: normalising an empty frame) is caught and returns False;
\* otherwise the model is fitted and saved.
train_model(csv) ==
    IF csv = None THEN [success |-> FALSE, model |-> None]
    ELSE IF Len(clean_data(csv[1])) = 0 THEN [success |-> FALSE, model |-> None]
    ELSE [success |-> TRUE, model |-> Some(Trained(csv[1]))]

\* Mutant of SelectModels: the skip flags are not applied
SelectModelsNoSkip(args) ==
    IF args.male \/ args.female
    THEN [male |-> args.male, female |-> args.female]
    ELSE [male |-> TRUE, female |-> TRUE]

\* main, "Determine which models to train": (train_male, train_female)
SelectModels(args) ==
    LET requested == IF args.male \/ args.female
                     THEN [male |-> args.male, female |-> args.female]
                     ELSE [male |-> TRUE, female |-> TRUE]
    IN  [male |-> requested.male /\ ~args.skip_male,
         female |-> requested.female /\ ~args.skip_female]

\* One run of the script, flags and CSV files given
InitScript ==
    /\ pc = "script"
    /\ features = <<>>
    /\ data = <<>>
    /\ normalized_features = <<>>
    /\ feature_names = <<>>
    /\ similarity_matrix = <<>>
    /\ call \in {[op |-> "train.py", args |-> args, csv |-> csv] :
                    args \in Flags, csv \in [{"male", "female"} -> CsvFiles]}
    /\ outcome = "none"
    /\ result = None
    /\ NoApp
    /\ index = <<>>

\* main: the models train_model was called for, the ones it returned success
\* for, the artifacts written and the exit status
TrainPy ==
    /\ pc = "script"
    /\ LET train == SelectModels(call.args)
           male == train_model(call.csv.male)
           female == train_model(call.csv.female)
           male_success == train.male /\ male.success
           female_success == train.female /\ female.success
       IN  IF ~train.male /\ ~train.female
           THEN /\ result' = [status |-> 1, trained |-> {}, succeeded |-> {}]
                /\ UNCHANGED models_dir
           ELSE /\ result' =
                     [status |-> IF \/ train.male /\ ~male_success
                                    \/ train.female /\ ~female_success
                                 THEN 1 ELSE 0,
                      trained |-> {g \in {"male", "female"} : train[g]},
                      succeeded |-> {g \in {"male"} : male_success}
                                    \cup {g \in {"female"} : female_success}]
                /\ models_dir' =
                     [male |-> IF male_success THEN SavedFile(male.model[1])
                               ELSE models_dir.male,
                      female |-> IF female_success
                                 THEN SavedFile(female.model[1])
                                 ELSE models_dir.female]
    /\ pc' = "exited"
    /\ outcome' = "returned"
    /\ UNCHANGED <<features, data, normalized_features, feature_names,
                   similarity_matrix, call, male_model, female_model,
                   index>>

NextScript == TrainPy

SpecScript == InitScript /\ [][NextScript]_vars

-----------------------------------------------------------------------------
(* Vocabulary of the properties *)

\* recommend_similar has returned a list
RecommendReturned == call.op = "recommend_similar" /\ outcome = "returned"

\* The row the name of the last call resolved to (when it resolved)
Resolved == find_player_index(data, call.player_name)

Found == ~Resolved.raised /\ Resolved.value # None

Source == Resolved.value[1]

\* Names are unique after clean_data, so a returned dict names one row
RowOf(rec) == CHOOSE i \in 1..Len(data) : data[i].Name = rec.Name

\* The candidates the contract of recommend_similar allows for source row
\* src: not the source, of the source's category when that is asked, within
\* the age difference when one is given
EligibleSet(src) ==
    {i \in 1..Len(data) :
        /\ i # src
        /\ call.same_position =>
              data[i].Position_Category = data[src].Position_Category
        /\ call.max_age_diff # None =>
              Abs(data[i].Age - data[src].Age) <= call.max_age_diff[1]}

\* The dataset rows of the returned records, in the order returned
ReturnedRows == [k \in 1..Len(result) |-> RowOf(result[k])]

-----------------------------------------------------------------------------
(* C1 *)

\* C1: whatever the dataset, the name, the count and the filters, the list
\* recommend_similar returns never holds the player the name resolved to.
C1_NeverReturnsQueriedPlayer ==
    (RecommendReturned /\ Found) =>
        LET src == Source
        IN  \A k \in 1..Len(result) : result[k].Name # data[src].Name

\* Every other player of a three-player dataset is returned, the source is not
C1_Witness ==
    /\ RecommendReturned /\ Found
    /\ Len(data) >= 3
    /\ Len(result) = Len(data) - 1

(* C2 *)

\* C2: with same_position=True every returned player has the source player's
\* position category, also when that category is 'Unknown'.
C2_SamePositionOnly ==
    (RecommendReturned /\ Found /\ call.same_position) =>
        LET src == Source
        IN  \A k \in 1..Len(result) :
                result[k].Position_Category = data[src].Position_Category

\* An 'Unknown' source gets an 'Unknown' player while another category is left out
C2_Witness ==
    /\ RecommendReturned /\ Found /\ call.same_position
    /\ data[Source].Position_Category = "Unknown"
    /\ Len(result) >= 1
    /\ \E i \in 1..Len(data) : data[i].Position_Category # "Unknown"

(* C3 *)

\* C3: for a found player, recommend_similar returns min(count, eligible)
\* players in non-increasing score order, no eligible player left out scores
\* strictly higher than a returned one, and each record carries its
\* similarity to the source.
C3_TopCountByScore ==
    (RecommendReturned /\ Found) =>
        LET src == Source
            eligible == EligibleSet(src)
            rows == ReturnedRows
        IN  /\ Len(result) = MinOf(call.n_recommendations, Cardinality(eligible))
            /\ \A k \in 1..Len(result) :
                  /\ rows[k] \in eligible
                  /\ result[k] = WithField(data[rows[k]], "similarity_score",
                                           similarity_matrix[src][rows[k]])
            /\ \A k, l \in 1..Len(result) : k # l => rows[k] # rows[l]
            /\ \A k \in 1..(Len(result) - 1) :
                  ScoreLeq(result[k + 1].similarity_score,
                           result[k].similarity_score)
            /\ \A i \in eligible \ Range(rows) :
                  \A k \in 1..Len(result) :
                      ScoreLeq(similarity_matrix[src][i],
                               result[k].similarity_score)

\* One of two eligible players is returned and it scores strictly higher
C3_Witness ==
    /\ RecommendReturned /\ Found
    /\ call.n_recommendations = 1
    /\ Len(result) = 1
    /\ \E i \in EligibleSet(Source) :
          ScoreLess(similarity_matrix[Source][i], result[1].similarity_score)

(* C10 *)

\* C10: after fit the similarity matrix is symmetric, so the score
\* recommend_similar reports for j given i is the stored similarity of j to i.
C10_SimilaritySymmetric ==
    /\ pc = "fitted" =>
          \A i, j \in 1..Len(data) :
              similarity_matrix[i][j] = similarity_matrix[j][i]
    /\ (RecommendReturned /\ Found) =>
          LET src == Source
          IN  \A k \in 1..Len(result) :
                  result[k].similarity_score =
                      similarity_matrix[RowOf(result[k])][src]

\* A reported score that is neither 0 nor 1, between rows of different norms
C10_Witness ==
    /\ RecommendReturned /\ Found
    /\ Len(result) >= 1
    /\ result[1].similarity_score \notin {Zero, One}
    /\ Dot(normalized_features[Source], normalized_features[Source])
          # Dot(normalized_features[RowOf(result[1])],
                normalized_features[RowOf(result[1])])

(* C4 *)

NameCall == call.op \in {"recommend_similar", "get_player_details"}

\* The rows whose name is the asked one up to case
LiteralExact == {i \in 1..Len(data) : Lower(data[i].Name) = Lower(call.player_name)}

\* The rows whose lower-cased name holds the lower-cased asked name as a
\* literal substring
LiteralPartial ==
    {i \in 1..Len(data) : Contains(Lower(data[i].Name), Lower(call.player_name))}

\* C4: when no player matches the name, neither exactly up to case nor by
\* substring, recommend_similar returns the empty list and
\* get_player_details returns null, and neither raises.
C4_NotFoundIsEmptyNotException ==
    (NameCall /\ LiteralExact = {} /\ LiteralPartial = {}) =>
        (outcome = "returned" /\ result = None)

(* C5 *)

\* The player the lookup rule of the specification names
LiteralLookup ==
    IF LiteralExact # {} THEN Some(SetMin(LiteralExact))
    ELSE IF LiteralPartial # {} THEN Some(SetMin(LiteralPartial))
    ELSE None

\* C5: the lookup resolves a name to the first player whose name equals it up
\* to case, else to the first player whose lower-cased name contains it as a
\* literal substring, else to no player.
C5_LookupRule ==
    NameCall =>
        /\ outcome = "returned"
        /\ Resolved.value = LiteralLookup
        /\ call.op = "get_player_details" =>
              result = IF LiteralLookup = None THEN None
                       ELSE Some(data[LiteralLookup[1]])

(* C6 *)

SearchCall == call.op = "search_players"

\* A text filter as the specification reads it: a literal substring, up to case
LiteralFilter(cell, arg) == arg = None \/ Contains(Lower(cell), Lower(arg[1]))

LiteralMatches(r) ==
    /\ LiteralFilter(r.Name, call.query)
    /\ LiteralFilter(r.Position, call.position)
    /\ call.min_overall = None \/ r.OVR >= call.min_overall[1]
    /\ call.max_overall = None \/ r.OVR <= call.max_overall[1]
    /\ LiteralFilter(r.Nation, call.nation)
    /\ LiteralFilter(r.League, call.league)
    /\ LiteralFilter(r.Team, call.team)

\* C6: with a limit of at least the dataset size, a player is in the result of
\* search_players exactly when it satisfies every supplied filter (substring
\* up to case, inclusive rating bounds); an omitted filter excludes nobody.
C6_SearchIsConjunctionOfFilters ==
    (SearchCall /\ call.limit >= Len(data)) =>
        /\ outcome = "returned"
        /\ Range(result) = {data[i] : i \in {j \in 1..Len(data) : LiteralMatches(data[j])}}

(* C7 *)

\* The rows that pass the filters of the last search, as the code applies them
Matching ==
    {i \in 1..Len(data) :
        Matches(data[i], call.query, call.position, call.min_overall,
                call.max_overall, call.nation, call.league, call.team)}

\* result[k] is a dataset row (the records of a listing are the rows)
ListedRows == {i \in 1..Len(data) : data[i] \in Range(result)}

\* C7: for any limit >= 0, search_players returns at most limit players, in
\* non-increasing OVR order, and they are the highest rated of the players
\* passing the filters: no matching player left out is rated strictly higher
\* than a returned one.
C7_SearchTopByRating ==
    (SearchCall /\ outcome = "returned") =>
        /\ Len(result) <= call.limit
        /\ Len(result) = MinOf(call.limit, Cardinality(Matching))
        /\ Cardinality(ListedRows) = Len(result)
        /\ ListedRows \subseteq Matching
        /\ \A k \in 1..(Len(result) - 1) : result[k].OVR >= result[k + 1].OVR
        /\ \A i \in Matching \ ListedRows :
              \A k \in 1..Len(result) : data[i].OVR <= result[k].OVR

\* A filtered search cut by its limit: a matching player of lower rating is left out
C7_Witness ==
    /\ SearchCall /\ outcome = "returned"
    /\ call.min_overall # None
    /\ call.limit = 1 /\ Len(result) = 1
    /\ \E i \in Matching : data[i].OVR < result[1].OVR
    /\ Cardinality(Matching) < Len(data)

(* C8 *)

TopCall == call.op = "get_top_players"

\* The players get_top_players chooses from: all of them when the position is
\* omitted (None, or the empty string of an empty request parameter)
Qualifying ==
    {i \in 1..Len(data) :
        (call.position # None /\ call.position[1] # "") =>
            data[i].Position_Category = call.position[1]}

\* C8: for any n >= 0, get_top_players(n, position) returns min(n, qualifying)
\* players, in non-increasing OVR order, none rated strictly lower than a
\* qualifying player left out.
C8_TopPlayers ==
    (TopCall /\ pc = "fitted") =>
        /\ outcome = "returned"
        /\ Len(result) = MinOf(call.n, Cardinality(Qualifying))
        /\ Cardinality(ListedRows) = Len(result)
        /\ ListedRows \subseteq Qualifying
        /\ \A k \in 1..(Len(result) - 1) : result[k].OVR >= result[k + 1].OVR
        /\ \A i \in Qualifying \ ListedRows :
              \A k \in 1..Len(result) : data[i].OVR <= result[k].OVR

\* One of two forwards is listed, the lower-rated one is left out, and the
\* dataset holds a player of another category
C8_Witness ==
    /\ TopCall /\ outcome = "returned"
    /\ call.position = Some("Forward")
    /\ call.n = 1 /\ Len(result) = 1
    /\ Cardinality(Qualifying) = 2
    /\ Len(data) = 3
    /\ \E i \in Qualifying : data[i].OVR < result[1].OVR

(* C9 *)

\* The values of column c of the raw feature matrix
ColumnValues(c) == {features[i][c] : i \in 1..Len(features)}

\* C9: normalize_features maps, column by column, the column's minimum to 0
\* and its maximum to 1, every other value into [0,1], and a column whose
\* values are all equal to the constant 0.  (1 is Scale in the model's units.)
C9_MinMaxNormalization ==
    pc = "normalized" =>
        /\ Len(normalized_features) = Len(features)
        /\ \A i \in 1..Len(features), c \in 1..Len(FEATURE_COLUMNS) :
              LET lo == SetMin(ColumnValues(c))
                  hi == SetMax(ColumnValues(c))
                  v == normalized_features[i][c]
              IN  /\ 0 <= v /\ v <= Scale
                  /\ lo = hi => v = 0
                  /\ (lo < hi /\ features[i][c] = lo) => v = 0
                  /\ (lo < hi /\ features[i][c] = hi) => v = Scale

\* A column with a minimum above 0, a value in between and a maximum, beside a
\* constant column that is not 0
C9_Witness ==
    /\ pc = "normalized"
    /\ ColumnValues(1) = {1, 2, 3}
    /\ ColumnValues(2) = {2}
    /\ \E i \in 1..Len(features) :
          normalized_features[i][1] \notin {0, Scale}

(* C11 *)

ExactScoresInUnitInterval ==
    /\ RecommendReturned =>
          \A k \in 1..Len(result) :
              /\ ScoreLeq(Zero, result[k].similarity_score)
              /\ ScoreLeq(result[k].similarity_score, One)
    /\ call.op = "recommend_by_attributes" =>
          \A k \in 1..Len(result) :
              /\ ScoreLeq(Zero, result[k].match_score)
              /\ ScoreLeq(result[k].match_score, One)

(* C12 *)

\* clean_data has returned; the frame it was given is call.df
Cleaned == call.op = "clean_data" /\ outcome = "returned"

\* Row i of the given frame has its name, rating, position and attributes
Complete(i) == call.df[i].missing \cap critical_cols = {}

\* The first complete row of the given frame with this name
FirstOf(name) ==
    SetMin({i \in 1..Len(call.df) : Complete(i) /\ call.df[i].Name = name})

\* C12: after clean_data no two records share a name, the record kept for a
\* name is the first row of that name among the rows that have no critical
\* cell missing, and the kept records are in input order.
C12_UniqueNamesFirstKept ==
    Cleaned =>
        /\ \A k, l \in 1..Len(result) :
              k # l => result[k].Name # result[l].Name
        /\ \A k \in 1..Len(result) :
              /\ \E i \in 1..Len(call.df) :
                    Complete(i) /\ call.df[i].Name = result[k].Name
              /\ result[k].OVR = call.df[FirstOf(result[k].Name)].OVR
        /\ \A k \in 1..(Len(result) - 1) :
              FirstOf(result[k].Name) < FirstOf(result[k + 1].Name)

\* The first row named A is dropped for a missing cell, the second is kept
\* and the third, of another rating, is dropped as its duplicate
C12_Witness ==
    /\ Cleaned
    /\ Len(call.df) = 3
    /\ ~Complete(1) /\ call.df[1].Name = <<"A">>
    /\ call.df[2].Name = <<"A">> /\ call.df[3].Name = <<"A">>
    /\ call.df[2].OVR # call.df[3].OVR
    /\ Len(result) = 1
    /\ result[1].OVR = call.df[2].OVR

(* C13 *)

\* The cleaned form of row i of the given frame is record rec: the cells as
\* given, and 0 in an attribute cell that held text
CleanedFrom(rec, i) ==
    /\ rec.Name = call.df[i].Name
    /\ rec.OVR = call.df[i].OVR
    /\ rec.Position = call.df[i].Position
    /\ \A c \in Range(FEATURE_COLUMNS) :
          rec[c] = IF c \in call.df[i].text THEN 0 ELSE call.df[i][c]

\* C13: clean_data drops exactly the rows with a missing name, rating,
\* position or attribute: every returned record is the cleaned form of a
\* complete row, every complete row is kept unless an earlier complete row
\* has its name, and text in an attribute cell does not drop the row and is
\* replaced by 0.
C13_DropsExactlyIncompleteRows ==
    Cleaned =>
        /\ \A k \in 1..Len(result) :
              \E i \in 1..Len(call.df) : Complete(i) /\ CleanedFrom(result[k], i)
        /\ \A i \in 1..Len(call.df) :
              (/\ Complete(i)
               /\ \A j \in 1..(i - 1) :
                     Complete(j) => call.df[j].Name # call.df[i].Name)
              => \E k \in 1..Len(result) : CleanedFrom(result[k], i)

\* A row with text in an attribute cell is kept with 0 there, beside a row
\* dropped for a missing attribute and a row dropped for a missing rating
C13_Witness ==
    /\ Cleaned
    /\ \E i \in 1..Len(call.df) :
          /\ Complete(i) /\ call.df[i].text # {}
          /\ \E k \in 1..Len(result) :
                /\ CleanedFrom(result[k], i)
                /\ \E c \in call.df[i].text : result[k][c] = 0 /\ call.df[i][c] # 0
    /\ \E i \in 1..Len(call.df) : "PAC" \in call.df[i].missing
    /\ \E i \in 1..Len(call.df) : "OVR" \in call.df[i].missing
    /\ Len(result) = 1

(* C14 *)

Categorized == call.op = "get_position_category" /\ outcome = "returned"

\* The category the substring rule names: the first group, in the order
\* Goalkeeper, Defender, Midfielder, Forward, one of whose codes occurs in
\* the upper-cased string
SubstringCategory(position) ==
    LET p == Upper(position)
    IN  IF Contains(p, <<"G","K">>) THEN "Goalkeeper"
        ELSE IF \E pos \in DefenderCodes : Contains(p, pos) THEN "Defender"
        ELSE IF \E pos \in MidfielderCodes : Contains(p, pos) THEN "Midfielder"
        ELSE IF \E pos \in ForwardCodes : Contains(p, pos) THEN "Forward"
        ELSE "Unknown"

\* C14: for every position string get_position_category returns the category
\* of the first group one of whose codes occurs as a substring of the
\* upper-cased string, 'Unknown' when none occurs, and always one of the five
\* categories.
C14_CategoryBySubstring ==
    Categorized =>
        /\ result = SubstringCategory(call.position)
        /\ result \in {"Goalkeeper", "Defender", "Midfielder", "Forward",
                       "Unknown"}

\* What does hold: the rule of C14 for every string that is GK up to case
\* or does not hold GK at all, and the five categories
CategoryBySubstringButGK ==
    Categorized =>
        /\ (\/ Upper(call.position) = <<"G","K">>
            \/ ~Contains(Upper(call.position), <<"G","K">>))
              => result = SubstringCategory(call.position)
        /\ result \in {"Goalkeeper", "Defender", "Midfielder", "Forward",
                       "Unknown"}

(* C15 *)

AttributesReturned ==
    call.op = "recommend_by_attributes" /\ outcome = "returned"

\* A position is given: not None, and not the empty string
PositionGiven == call.position # None /\ call.position[1] # ""

\* The players that pass the position filter of the last call
Passing ==
    {i \in 1..Len(data) :
        PositionGiven => data[i].Position_Category = call.position[1]}

\* The target of the last call: the supplied value of each attribute, 50 for
\* an attribute not supplied; other keys play no part
SuppliedOrDefault ==
    [i \in 1..Len(FEATURE_COLUMNS) |->
        IF FEATURE_COLUMNS[i] \in DOMAIN call.target_attributes
        THEN call.target_attributes[FEATURE_COLUMNS[i]] ELSE 50]

\* The match score of player i for that target
MatchScore(i) ==
    CosineOfRows(NormalizeTarget(SuppliedOrDefault), normalized_features[i])

\* C15: recommend_by_attributes scores against the target made of the
\* supplied values and 50 for the rest, and for any count >= 0 returns
\* min(count, passing) different players that pass the position filter, in
\* non-increasing match-score order, each with its match score; with a
\* position every returned player has that category, and nothing else
\* excludes a player.
C15_ByAttributes ==
    AttributesReturned =>
        LET rows == ReturnedRows
        IN  /\ Len(result) =
                  MinOf(call.n_recommendations, Cardinality(Passing))
            /\ \A k \in 1..Len(result) :
                  /\ rows[k] \in Passing
                  /\ result[k] = WithField(data[rows[k]], "match_score",
                                           MatchScore(rows[k]))
            /\ \A k, l \in 1..Len(result) : k # l => rows[k] # rows[l]
            /\ \A k \in 1..(Len(result) - 1) :
                  ScoreLeq(result[k + 1].match_score, result[k].match_score)
            /\ PositionGiven =>
                  \A k \in 1..Len(result) :
                      result[k].Position_Category = call.position[1]

\* Both forwards of a three-player dataset are returned, the better match
\* first, for a target with one supplied attribute and a key that is none
C15_Witness ==
    /\ AttributesReturned
    /\ call.position = Some("Forward")
    /\ "XYZ" \in DOMAIN call.target_attributes
    /\ Len(data) = 3
    /\ Cardinality(Passing) = 2
    /\ call.n_recommendations = 3
    /\ Len(result) = 2
    /\ ScoreLess(result[2].match_score, result[1].match_score)

(* C16 *)

\* No stored row has a score field
ScoreFree ==
    \A i \in 1..Len(data) :
        {"similarity_score", "match_score"} \cap DOMAIN data[i] = {}

\* What the call c produces on the recommender as it is now.  The listings
\* leave the order of equally rated players open.
Outcomes(c) ==
    CASE c.op = "recommend_similar" ->
            {recommend_similar(data, similarity_matrix, c.player_name,
                               c.n_recommendations, c.same_position,
                               c.max_age_diff)}
      [] c.op = "recommend_by_attributes" ->
            {recommend_by_attributes(data, normalized_features, feature_names,
                                     c.target_attributes, c.n_recommendations,
                                     c.position)}
      [] c.op = "get_player_details" ->
            {get_player_details(data, c.player_name)}
      [] c.op = "search_players" ->
            IF BadPattern({c.query, c.position, c.nation, c.league, c.team})
            THEN {Raised}
            ELSE {Returned(Head_(sorted, c.limit)) :
                    sorted \in SortValuesDesc(SelectSeq(data, LAMBDA r :
                        Matches(r, c.query, c.position, c.min_overall,
                                c.max_overall, c.nation, c.league, c.team)))}
      [] c.op = "get_top_players" ->
            {Returned(Head_(sorted, c.n)) :
                sorted \in SortValuesDesc(TopFilter(data, c.position))}

\* The answer held is one the same call produces now
Repeatable ==
    (pc = "fitted" /\ call # NoCall) =>
        [raised |-> outcome = "raised", value |-> result] \in Outcomes(call)

LoadFailed(g) == models_dir[g].state # "saved"

ModelOf(g) == IF g = "male" THEN male_model ELSE female_model

\* The models a request needs: the one of its gender; both for the statistics
NeededModels(c) == IF c.op = "/api/stats" THEN Genders ELSE {c.gender}

\* The response held is an error response
IsError == result.status >= 400 /\ ~result.success

\* C17: when an artifact is missing or fails to load at startup, every
\* request that needs that model (search, recommend, player details,
\* compare, top-players, stats) gets an error response and never a success
\* response, the model is never loaded later, and the other gender's model
\* is loaded and served all the same.
C17_LoadFailureIsReported ==
    /\ (/\ pc = "serving" /\ call # NoCall
        /\ \E g \in NeededModels(call) : LoadFailed(g)) => IsError
    /\ pc = "serving" => \A g \in Genders : LoadFailed(g) => ModelOf(g) = None
    /\ pc # "startup" =>
          \A g \in Genders :
              ~LoadFailed(g) => pc = "serving" /\ ModelOf(g) = models_dir[g].model

\* What does hold: the same for every endpoint but /api/stats, and for the
\* other gender's model whenever the app got past startup
LoadFailureIsReportedButStats ==
    /\ (/\ pc = "serving" /\ call # NoCall /\ call.op # "/api/stats"
        /\ \E g \in NeededModels(call) : LoadFailed(g)) => IsError
    /\ pc = "serving" => \A g \in Genders : LoadFailed(g) => ModelOf(g) = None
    /\ pc = "serving" =>
          \A g \in Genders : ~LoadFailed(g) => ModelOf(g) = models_dir[g].model

\* /api/stats answers success although a model is not loaded
StatsSucceedsWithoutModel ==
    /\ pc = "serving" /\ call.op = "/api/stats"
    /\ \E g \in Genders : LoadFailed(g)
    /\ result.success

(* C18 *)

\* C18: with a max_age_diff every player recommend_similar returns is within
\* that age difference of the source (the bound included; ages are those of
\* the cleaned dataset, 0 where the age was missing), and age excludes nobody
\* else: a player at exactly the bound is eligible, and without a
\* max_age_diff every age is.
C18_AgeFilter ==
    (RecommendReturned /\ Found) =>
        LET src == Source
        IN  /\ call.max_age_diff # None =>
                  \A k \in 1..Len(result) :
                      Abs(result[k].Age - data[src].Age) <= call.max_age_diff[1]
            /\ Len(result) =
                  MinOf(call.n_recommendations, Cardinality(EligibleSet(src)))
            /\ \A k \in 1..Len(result) : RowOf(result[k]) \in EligibleSet(src)

\* A player at exactly the bound is returned while a player whose missing
\* age was cleaned to 0 is out of it and left out
C18_Witness ==
    /\ RecommendReturned /\ Found
    /\ call.max_age_diff = Some(5)
    /\ ~call.same_position
    /\ call.n_recommendations >= Len(data)
    /\ \E k \in 1..Len(result) : Abs(result[k].Age - data[Source].Age) = 5
    /\ \E i \in 1..Len(data) :
          /\ data[i].Age = 0
          /\ Abs(data[i].Age - data[Source].Age) > 5
          /\ \A k \in 1..Len(result) : result[k].Name # data[i].Name

(* C19 *)

ScriptExited == call.op = "train.py" /\ pc = "exited"

\* The flags given in the last run
Given == {f \in {"male", "female", "skip_male", "skip_female"} : call.args[f]}

\* The models the flags leave selected: those asked for (both when none is
\* asked for), less the skipped ones
Selected ==
    (IF Given \cap {"male", "female"} = {} THEN {"male", "female"}
     ELSE Given \cap {"male", "female"})
        \ ({"male" : f \in Given \cap {"skip_male"}}
              \cup {"female" : f \in Given \cap {"skip_female"}})

\* Training the model of gender g succeeds: its CSV exists and a row is left
\* after cleaning
TrainsWell(g) == call.csv[g] # None /\ Len(clean_data(call.csv[g][1])) > 0

\* C19: the script trains both models without a flag, the male one only with
\* --male or --skip-female, the female one only with --female or
\* --skip-male; when the flags leave no model selected it trains nothing and
\* exits with 1; otherwise it trains the selected models and exits with 0
\* exactly when each of them trained successfully.
C19_TrainingFlags ==
    ScriptExited =>
        /\ Given = {} => result.trained = {"male", "female"}
        /\ Given = {"male"} => result.trained = {"male"}
        /\ Given = {"female"} => result.trained = {"female"}
        /\ Given = {"skip_male"} => result.trained = {"female"}
        /\ Given = {"skip_female"} => result.trained = {"male"}
        /\ result.trained = Selected
        /\ Selected = {} =>
              /\ result.status = 1
              /\ models_dir = [male |-> MissingFile, female |-> MissingFile]
        /\ Selected # {} =>
              /\ result.status \in {0, 1}
              /\ result.status = 0 <=> \A g \in Selected : TrainsWell(g)
              /\ \A g \in {"male", "female"} :
                    models_dir[g].state = "saved" <=>
                        (g \in Selected /\ TrainsWell(g))

\* --skip-male alone: only the female model is trained, and the run exits
\* with 0 although the male CSV is absent
C19_Witness ==
    /\ ScriptExited
    /\ Given = {"skip_male"}
    /\ call.csv.male = None
    /\ result.trained = {"female"}
    /\ result.status = 0
    /\ models_dir.female.state = "saved"

(* C20 *)

RecommendAnswered == pc = "serving" /\ call.op = "/api/recommend"

\* What recommend_similar does for the request held, on the selected model
Recommended ==
    LET m == SelectModel(call.gender)[1]
    IN  recommend_similar(m.data, m.similarity_matrix, call.player_name,
                          call.n_recommendations, call.same_position,
                          call.max_age_diff)

\* The response names, as source, the player the name resolves to on the
\* selected model, and does not list that player
SourceIsResolvedPlayer ==
    LET m == SelectModel(call.gender)[1]
        found == find_player_index(m.data, call.player_name)
    IN  /\ ~found.raised /\ found.value # None
        /\ result.payload.source_player = Card(m.data[found.value[1]])
        /\ \A k \in 1..Len(result.payload.recommendations) :
              result.payload.recommendations[k].name
                  # m.data[found.value[1]].Name

\* C20: /api/recommend answers 400 for an empty player name, 500 when the
\* selected model is not loaded, 404 whenever recommend_similar returns an
\* empty list, and in every other case a success response whose source
\* player is the player the name resolved to and whose list does not hold
\* that player.
C20_RecommendEndpoint ==
    RecommendAnswered =>
        IF call.player_name = <<>> THEN result.status = 400
        ELSE IF SelectModel(call.gender) = None THEN result.status = 500
        ELSE IF ~Recommended.raised /\ Recommended.value = <<>>
             THEN result.status = 404
        ELSE /\ result.success /\ result.status = 200
             /\ SourceIsResolvedPlayer

\* What does hold: the same, with 500 when recommend_similar raises
RecommendEndpointOrRaises ==
    RecommendAnswered =>
        IF call.player_name = <<>> THEN result.status = 400
        ELSE IF SelectModel(call.gender) = None THEN result.status = 500
        ELSE IF Recommended.raised THEN result.status = 500
        ELSE IF Recommended.value = <<>> THEN result.status = 404
        ELSE /\ result.success /\ result.status = 200
             /\ SourceIsResolvedPlayer

\* A success response of /api/recommend with two recommendations
RecommendSucceeds ==
    /\ RecommendAnswered
    /\ result.success
    /\ Len(result.payload.recommendations) = 2

\* A 404 of /api/recommend for a player that is found
RecommendFoundButEmpty ==
    /\ RecommendAnswered
    /\ result.status = 404
    /\ call.n_recommendations > 0
    /\ find_player_index(SelectModel(call.gender)[1].data,
                         call.player_name).value # None

-----------------------------------------------------------------------------
(* C21 *)

\* self.data.iloc[k]: the row at the 0-based position k
Iloc(k) == data[k + 1]

\* matches.index[0], the label _find_player_index returns for the row the
\* lookup resolves the name to
PlayerIdx == index[Source]

\* Row i of the normalized matrix is made of the attributes of dataset row i
FeatureRowOf(i) ==
    \A c \in 1..Len(FEATURE_COLUMNS) :
        normalized_features[i][c] * RangeVals(extract_features(data), c)
            = (data[i][FEATURE_COLUMNS[c]]
                 - ColumnMin(extract_features(data), c)) * Scale

\* C21: after process_for_training and fit the dataset rows are labelled
\* 0..N-1 in order, the normalized matrix has N rows and the similarity
\* matrix is N by N, row i of both belonging to dataset row i; so the label
\* the name lookup returns is the position of the resolved player in the
\* dataset and in the similarity matrix, and the entry recommend_similar
\* skips is that player's own.
C21_IndexAlignment ==
    pc = "fitted" =>
        /\ index = RangeIndex(Len(data))
        /\ Len(normalized_features) = Len(data)
        /\ Len(similarity_matrix) = Len(data)
        /\ \A i \in 1..Len(data) :
              /\ FeatureRowOf(i)
              /\ Len(similarity_matrix[i]) = Len(data)
              /\ \A j \in 1..Len(data) :
                    similarity_matrix[i][j]
                        = CosineOfRows(normalized_features[i],
                                       normalized_features[j])
        /\ (RecommendReturned /\ Found) =>
              /\ Iloc(PlayerIdx) = data[Source]
              /\ similarity_matrix[PlayerIdx + 1] = similarity_matrix[Source]
              /\ \A k \in 1..Len(result) : RowOf(result[k]) # PlayerIdx + 1

\* A dataset of several players, the queried one not the first, and a
\* non-empty list of recommendations
C21_Witness ==
    /\ pc = "fitted"
    /\ Len(data) = MaxPlayers
    /\ RecommendReturned
    /\ Found
    /\ Source > 1
    /\ Len(result) >= 1

-----------------------------------------------------------------------------
(* C22 *)

\* One of the two recommendations has returned its list
RecommenderReturned ==
    /\ call.op \in {"recommend_similar", "recommend_by_attributes"}
    /\ outcome = "returned"

\* The score a returned record carries
ScoreOf(rec) ==
    IF call.op = "recommend_similar" THEN rec.similarity_score
    ELSE rec.match_score

\* The call was made before with the same arguments
Repeated == "first" \in DOMAIN call

\* C22: recommend_similar and recommend_by_attributes are deterministic:
\* records with equal scores are returned in ascending dataset order, and a
\* second call with the same arguments on the same recommender returns the
\* same list in the same order as the first.
C22_Deterministic ==
    RecommenderReturned =>
        /\ \A k, l \in 1..Len(result) :
              (k < l /\ ScoreOf(result[k]) = ScoreOf(result[l]))
                  => RowOf(result[k]) < RowOf(result[l])
        /\ Repeated => result = call.first

\* A repeated recommend_similar whose list holds two players of one score
C22_Witness ==
    /\ RecommenderReturned
    /\ Repeated
    /\ call.op = "recommend_similar"
    /\ \E k, l \in 1..Len(result) :
          k < l /\ ScoreOf(result[k]) = ScoreOf(result[l])

-----------------------------------------------------------------------------
(* C23 *)

\* All attributes have the same target value, supplied or defaulted
UniformTarget == Cardinality(Range(SuppliedOrDefault)) = 1

\* The vector is all zero
AllZero(v) == \A c \in 1..Len(v) : v[c] = 0

\* C23: when all attributes have the same target value (the empty mapping
\* included, every attribute then being 50) the normalized target is the
\* all-zero vector, every match score is 0 and recommend_by_attributes
\* returns the first `count` players in dataset order that pass the position
\* filter; and a player whose normalized feature vector is all zero has
\* similarity 0 to every player.
C23_UniformTargetAndZeroRows ==
    /\ (AttributesReturned /\ UniformTarget) =>
          LET rows == ReturnedRows
          IN  /\ AllZero(NormalizeTarget(SuppliedOrDefault))
              /\ \A i \in 1..Len(data) : MatchScore(i) = Zero
              /\ Len(result) =
                    MinOf(call.n_recommendations, Cardinality(Passing))
              /\ \A k \in 1..Len(result) :
                    /\ result[k].match_score = Zero
                    /\ rows[k] \in Passing
                    /\ Cardinality({i \in Passing : i < rows[k]}) = k - 1
    /\ pc = "fitted" =>
          \A i \in 1..Len(data) :
              AllZero(normalized_features[i]) =>
                  \A j \in 1..Len(data) :
                      /\ similarity_matrix[i][j] = Zero
                      /\ similarity_matrix[j][i] = Zero

\* Equal supplied values, a position filter that two of three players pass,
\* the first of the three not among them, and a player whose normalized
\* vector is all zero
C23_Witness ==
    /\ AttributesReturned
    /\ UniformTarget
    /\ DOMAIN call.target_attributes = {"PAC", "SHO"}
    /\ PositionGiven
    /\ Len(data) = MaxPlayers
    /\ 1 \notin Passing
    /\ Len(result) = 2
    /\ \E i \in 1..Len(data) : AllZero(normalized_features[i])

=============================================================================
